---- MODULE Spec2Model ----
(***************************************************************************)
(* Product Approval AI: the POST /review request path.                     *)
(*                                                                         *)
(*   app/models.py                  ReviewRequest, ReviewResponse          *)
(*   app/main.py                    validation_exception_handler           *)
(*   app/api/routes.py              review_product (route)                 *)
(*   app/services/review_service.py ReviewService                          *)
(*                                                                         *)
(* Text is modelled as TLA+ strings, handled character by character with   *)
(* Len, SubSeq and \o.  The euro sign of the source's keyword list is      *)
(* written "$" (the module's strings are ASCII); no modelled input uses    *)
(* "$" for anything else.  TimeoutError is the built-in that               *)
(* asyncio.wait_for raises (Python 3.11 and later).                        *)
(***************************************************************************)
EXTENDS Integers, Sequences, FiniteSets, TLC

(***************************************************************************)
(* Python str operations                                                   *)
(***************************************************************************)

\* The characters str.strip() removes and json skips between tokens.
Whitespace == {" ", "\t", "\n", "\r"}

UpperCase == "ABCDEFGHIJKLMNOPQRSTUVWXYZ"

LowerCase == "abcdefghijklmnopqrstuvwxyz"

\* s[i] as a one-character string; "" outside the string.
CharAt(s, i) ==
    IF i >= 1 /\ i <= Len(s) THEN SubSeq(s, i, i) ELSE ""

\* c.lower() of one character.
LowerChar(c) ==
    IF \E i \in 1..26 : SubSeq(UpperCase, i, i) = c
    THEN LET i == CHOOSE j \in 1..26 : SubSeq(UpperCase, j, j) = c
         IN SubSeq(LowerCase, i, i)
    ELSE c

RECURSIVE LowerRange(_, _, _)
\* s[lo..hi].lower(), by halves.
LowerRange(s, lo, hi) ==
    IF lo > hi THEN ""
    ELSE IF lo = hi THEN LowerChar(SubSeq(s, lo, lo))
    ELSE LET mid == (lo + hi) \div 2
         IN LowerRange(s, lo, mid) \o LowerRange(s, mid + 1, hi)

\* str.lower()
lower(s) == LowerRange(s, 1, Len(s))

\* Python's `k in s` for strings.
Contains(k, s) ==
    \E i \in 1..(Len(s) - Len(k) + 1) : SubSeq(s, i, i + Len(k) - 1) = k

\* str.startswith / str.endswith
startswith(s, p) == Len(s) >= Len(p) /\ SubSeq(s, 1, Len(p)) = p

endswith(s, p) == Len(s) >= Len(p) /\ SubSeq(s, Len(s) - Len(p) + 1, Len(s)) = p

RECURSIVE FirstNonWs(_, _, _)
\* The least index in lo..hi of a non-whitespace character, 0 if none.
FirstNonWs(s, lo, hi) ==
    IF lo > hi THEN 0
    ELSE IF lo = hi THEN (IF SubSeq(s, lo, lo) \in Whitespace THEN 0 ELSE lo)
    ELSE LET mid == (lo + hi) \div 2
             l == FirstNonWs(s, lo, mid)
         IN IF l # 0 THEN l ELSE FirstNonWs(s, mid + 1, hi)

RECURSIVE LastNonWs(_, _, _)
\* The greatest index in lo..hi of a non-whitespace character, 0 if none.
LastNonWs(s, lo, hi) ==
    IF lo > hi THEN 0
    ELSE IF lo = hi THEN (IF SubSeq(s, lo, lo) \in Whitespace THEN 0 ELSE lo)
    ELSE LET mid == (lo + hi) \div 2
             r == LastNonWs(s, mid + 1, hi)
         IN IF r # 0 THEN r ELSE LastNonWs(s, lo, mid)

\* str.strip()
strip(s) ==
    LET a == FirstNonWs(s, 1, Len(s))
    IN IF a = 0 THEN "" ELSE SubSeq(s, a, LastNonWs(s, 1, Len(s)))

RECURSIVE FirstNewline(_, _, _)
\* The least index in lo..hi of a line feed, 0 if none.
FirstNewline(s, lo, hi) ==
    IF lo > hi THEN 0
    ELSE IF lo = hi THEN (IF SubSeq(s, lo, lo) = "\n" THEN lo ELSE 0)
    ELSE LET mid == (lo + hi) \div 2
             l == FirstNewline(s, lo, mid)
         IN IF l # 0 THEN l ELSE FirstNewline(s, mid + 1, hi)

RECURSIVE SplitFrom(_, _)
\* s[i..].split('\n') as a sequence of strings.
SplitFrom(s, i) ==
    LET j == FirstNewline(s, i, Len(s))
    IN IF j = 0 THEN <<SubSeq(s, i, Len(s))>>
       ELSE <<SubSeq(s, i, j - 1)>> \o SplitFrom(s, j + 1)

\* s.split('\n')
split_lines(s) == SplitFrom(s, 1)

RECURSIVE Repeat(_, _)
\* c * n
Repeat(c, n) ==
    IF n <= 0 THEN ""
    ELSE IF n = 1 THEN c
    ELSE LET h == Repeat(c, n \div 2)
         IN IF n % 2 = 0 THEN h \o h ELSE h \o h \o c


(***************************************************************************)
(* json.loads, for the JSON the modelled backend texts use: objects,       *)
(* arrays, strings with the escapes \" \\ \/ \n \t \r, numbers and the     *)
(* literals.  A value is [t |-> type, v |-> payload]: the text of a str or *)
(* num, the elements of a list, the <<key, value>> members of a dict.      *)
(***************************************************************************)

Digits == {"0", "1", "2", "3", "4", "5", "6", "7", "8", "9"}

JsonFail == [ok |-> FALSE, val |-> [t |-> "null", v |-> ""], pos |-> 0]

JsonOk(val, pos) == [ok |-> TRUE, val |-> val, pos |-> pos]

StrVal(s) == [t |-> "str", v |-> s]

\* The index of the first non-whitespace character at or after i.
SkipWs(s, i) ==
    LET j == FirstNonWs(s, i, Len(s))
    IN IF j = 0 THEN Len(s) + 1 ELSE j

RECURSIVE FirstStringStop(_, _, _)
\* The least index in lo..hi of a character that ends a run of plain string
\* characters: the closing quote, a backslash, or a control character.
FirstStringStop(s, lo, hi) ==
    IF lo > hi THEN 0
    ELSE IF lo = hi
         THEN (IF SubSeq(s, lo, lo) \in {"\"", "\\", "\n", "\t", "\r"} THEN lo ELSE 0)
    ELSE LET mid == (lo + hi) \div 2
             l == FirstStringStop(s, lo, mid)
         IN IF l # 0 THEN l ELSE FirstStringStop(s, mid + 1, hi)

\* The character an escape letter stands for; "" for an invalid escape.
Unescape(e) ==
    CASE e = "\"" -> "\""
      [] e = "\\" -> "\\"
      [] e = "/"  -> "/"
      [] e = "n"  -> "\n"
      [] e = "t"  -> "\t"
      [] e = "r"  -> "\r"
      [] OTHER    -> ""

RECURSIVE ScanString(_, _, _)

\* A run of plain characters s[i..j-1] ends at the stop character of index j
\* (0: the text ended first).
ScanStringStop(s, i, j, acc) ==
    IF j = 0 THEN JsonFail
    ELSE IF SubSeq(s, j, j) = "\""
         THEN JsonOk(StrVal(acc \o SubSeq(s, i, j - 1)), j + 1)
    ELSE IF SubSeq(s, j, j) = "\\" /\ Unescape(CharAt(s, j + 1)) # ""
         THEN ScanString(s, j + 2,
                         acc \o SubSeq(s, i, j - 1) \o Unescape(CharAt(s, j + 1)))
    ELSE JsonFail

\* The string whose opening quote is just before i; acc is what was read.
ScanString(s, i, acc) == ScanStringStop(s, i, FirstStringStop(s, i, Len(s)), acc)

RECURSIVE DigitsEnd(_, _)
\* The index just after the run of digits that starts at i.
DigitsEnd(s, i) ==
    IF CharAt(s, i) \in Digits THEN DigitsEnd(s, i + 1) ELSE i

\* The index just after the exponent that starts at c, c if there is none;
\* d is the index of the exponent's first digit.
ExponentEnd(s, c, d) ==
    IF CharAt(s, c) \in {"e", "E"} /\ DigitsEnd(s, d) > d THEN DigitsEnd(s, d) ELSE c

\* The index just after the fraction that starts at b, b if there is none.
FractionEnd(s, b) ==
    IF CharAt(s, b) = "." /\ DigitsEnd(s, b + 1) > b + 1 THEN DigitsEnd(s, b + 1) ELSE b

NumberFrom(s, i, e) == JsonOk([t |-> "num", v |-> SubSeq(s, i, e - 1)], e)

NumberAfterFraction(s, i, c) ==
    NumberFrom(s, i, ExponentEnd(s, c, IF CharAt(s, c + 1) \in {"+", "-"} THEN c + 2 ELSE c + 1))

\* The number whose integer part is s[a..b-1].
NumberAfterInt(s, i, a, b) ==
    IF b = a THEN JsonFail ELSE NumberAfterFraction(s, i, FractionEnd(s, b))

NumberAfterSign(s, i, a) ==
    NumberAfterInt(s, i, a, IF CharAt(s, a) = "0" THEN a + 1 ELSE DigitsEnd(s, a))

\* -?(0|[1-9][0-9]*)(\.[0-9]+)?([eE][+-]?[0-9]+)?
ScanNumber(s, i) == NumberAfterSign(s, i, IF CharAt(s, i) = "-" THEN i + 1 ELSE i)

\* Whether the text w stands at index i of s.
At(s, i, w) == i + Len(w) - 1 <= Len(s) /\ SubSeq(s, i, i + Len(w) - 1) = w

\* dict[key] = val: a later member replaces an earlier one of the same key.
DictPut(members, key, val) ==
    SelectSeq(members, LAMBDA m : m[1] # key) \o <<(<<key, val>>)>>

RECURSIVE ParseValue(_, _)
RECURSIVE ParseElements(_, _, _)
RECURSIVE ParseMembers(_, _, _)

\* After an array element r, with j the index of the next token: more elements
\* after a comma, the list at the closing bracket.
ElementsNext(s, j, elems) ==
    IF CharAt(s, j) = "," THEN ParseElements(s, SkipWs(s, j + 1), elems)
    ELSE IF CharAt(s, j) = "]" THEN JsonOk([t |-> "list", v |-> elems], j + 1)
    ELSE JsonFail

ElementsAfterValue(s, r, acc) ==
    IF ~r.ok THEN JsonFail
    ELSE ElementsNext(s, SkipWs(s, r.pos), Append(acc, r.val))

\* The elements of an array from index i (a value is due at i).
ParseElements(s, i, acc) == ElementsAfterValue(s, ParseValue(s, i), acc)

\* After an object member, with j the index of the next token: more members
\* after a comma, the dict at the closing brace.
MembersNext(s, j, members) ==
    IF CharAt(s, j) = "," THEN ParseMembers(s, SkipWs(s, j + 1), members)
    ELSE IF CharAt(s, j) = "}" THEN JsonOk([t |-> "dict", v |-> members], j + 1)
    ELSE JsonFail

MembersAfterValue(s, key, r, acc) ==
    IF ~r.ok THEN JsonFail
    ELSE MembersNext(s, SkipWs(s, r.pos), DictPut(acc, key, r.val))

\* After the key k, with c the index of the next token: the colon and the value.
MembersAfterKey(s, k, c, acc) ==
    IF ~k.ok \/ CharAt(s, c) # ":" THEN JsonFail
    ELSE MembersAfterValue(s, k.val.v, ParseValue(s, SkipWs(s, c + 1)), acc)

MembersKey(s, k, acc) ==
    IF ~k.ok THEN JsonFail ELSE MembersAfterKey(s, k, SkipWs(s, k.pos), acc)

\* The members of an object from index i (a key is due at i).
ParseMembers(s, i, acc) ==
    IF CharAt(s, i) # "\"" THEN JsonFail
    ELSE MembersKey(s, ScanString(s, i + 1, ""), acc)

\* The object or array whose opening bracket is just before index i.
ParseContainer(s, open, i) ==
    IF open = "{"
    THEN IF CharAt(s, i) = "}" THEN JsonOk([t |-> "dict", v |-> <<>>], i + 1)
         ELSE ParseMembers(s, i, <<>>)
    ELSE IF CharAt(s, i) = "]" THEN JsonOk([t |-> "list", v |-> <<>>], i + 1)
         ELSE ParseElements(s, i, <<>>)

\* The JSON value that starts with the character c at index i.
ParseValueAt(s, i, c) ==
    CASE c = "\"" -> ScanString(s, i + 1, "")
      [] c \in {"{", "["} -> ParseContainer(s, c, SkipWs(s, i + 1))
      [] At(s, i, "null") -> JsonOk([t |-> "null", v |-> "null"], i + 4)
      [] At(s, i, "true") -> JsonOk([t |-> "bool", v |-> "true"], i + 4)
      [] At(s, i, "false") -> JsonOk([t |-> "bool", v |-> "false"], i + 5)
      [] At(s, i, "NaN") -> JsonOk([t |-> "num", v |-> "NaN"], i + 3)
      [] At(s, i, "Infinity") -> JsonOk([t |-> "num", v |-> "Infinity"], i + 8)
      [] At(s, i, "-Infinity") -> JsonOk([t |-> "num", v |-> "-Infinity"], i + 9)
      [] c = "-" \/ c \in Digits -> ScanNumber(s, i)
      [] OTHER -> JsonFail

\* The JSON value that starts at index i.
ParseValue(s, i) == ParseValueAt(s, i, CharAt(s, i))

\* The whole text must be one value: text after it is "Extra data".
WholeText(s, r) ==
    IF r.ok /\ SkipWs(s, r.pos) = Len(s) + 1 THEN r ELSE JsonFail

\* json.loads(s): ok is FALSE where it raises JSONDecodeError.
json_loads(s) == WholeText(s, ParseValue(s, SkipWs(s, 1)))

\* dict.get(key, default)
dict_get(data, key, default) ==
    IF \E i \in 1..Len(data.v) : data.v[i][1] = key
    THEN (data.v[CHOOSE i \in 1..Len(data.v) : data.v[i][1] = key])[2]
    ELSE default


(***************************************************************************)
(* app/models.py                                                           *)
(***************************************************************************)

ProductNameMinLength == 1

ProductNameMaxLength == 200

SalesPageMinLength == 10

SalesPageMaxLength == 10000

ExplanationMinLength == 10

ExplanationMaxLength == 500

\* A field of the request's JSON body: absent, a string, or another JSON type.
Missing == [kind |-> "missing", val |-> ""]

Str(s) == [kind |-> "str", val |-> s]

NotAString == [kind |-> "other", val |-> ""]

\* What a field validator does: it returns a value, or raises ValueError(msg).
Returns(v) == [ok |-> TRUE, val |-> v, msg |-> ""]

ValueError(msg) == [ok |-> FALSE, val |-> "", msg |-> msg]

\* validate_product_name without the strip() of the value it returns.
validate_product_name_unstripped(v) ==
    IF strip(v) = ""
    THEN ValueError("Product name cannot be empty or just whitespace")
    ELSE Returns(v)

\* @field_validator("product_name")
validate_product_name(v) ==
    IF strip(v) = ""
    THEN ValueError("Product name cannot be empty or just whitespace")
    ELSE Returns(strip(v))

\* validate_sales_page without its test for whitespace-only content.
validate_sales_page_unchecked(v) == Returns(strip(v))

\* @field_validator("sales_page")
validate_sales_page(v) ==
    IF strip(v) = ""
    THEN ValueError("Sales page content cannot be empty or just whitespace")
    ELSE Returns(strip(v))

\* pydantic's validation of one str field: the type, the Field's length
\* constraints on the value as sent, and then the field validator, whose result
\* for the value is `validated`.  msg is "" when the field is valid.
ValidateField(f, min_length, max_length, validated) ==
    IF f.kind = "missing" THEN [msg |-> "Field required", val |-> ""]
    ELSE IF f.kind # "str" THEN [msg |-> "Input should be a valid string", val |-> ""]
    ELSE IF Len(f.val) < min_length
         THEN [msg |-> "String should have at least " \o ToString(min_length)
                       \o " characters", val |-> ""]
    ELSE IF Len(f.val) > max_length
         THEN [msg |-> "String should have at most " \o ToString(max_length)
                       \o " characters", val |-> ""]
    ELSE IF ~validated.ok THEN [msg |-> "Value error, " \o validated.msg, val |-> ""]
    ELSE [msg |-> "", val |-> validated.val]

\* The request model of the two validated fields, or their errors in declaration
\* order.
RequestOf(pn, sp) ==
    [ok |-> pn.msg = "" /\ sp.msg = "",
     product_name |-> pn.val,
     sales_page |-> sp.val,
     errors |-> (IF pn.msg = "" THEN <<>>
                 ELSE <<[loc |-> <<"body", "product_name">>, msg |-> pn.msg]>>)
                \o (IF sp.msg = "" THEN <<>>
                    ELSE <<[loc |-> <<"body", "sales_page">>, msg |-> sp.msg]>>)]

\* ReviewRequest(**body): ok is FALSE where FastAPI raises RequestValidationError.
ReviewRequest(b) ==
    RequestOf(ValidateField(b.product_name, ProductNameMinLength, ProductNameMaxLength,
                            validate_product_name(b.product_name.val)),
              ValidateField(b.sales_page, SalesPageMinLength, SalesPageMaxLength,
                            validate_sales_page(b.sales_page.val)))

\* ReviewResponse without the Field constraints on explanation.
ReviewResponseUnchecked(decision, explanation) ==
    [ok |-> TRUE, decision |-> decision, explanation |-> explanation]

\* ReviewResponse(decision=..., explanation=...): ok is FALSE where pydantic
\* raises ValidationError.  explanation is a value [t, v] as json.loads gives it.
ReviewResponse(decision, explanation) ==
    IF /\ explanation.t = "str"
       /\ Len(explanation.v) >= ExplanationMinLength
       /\ Len(explanation.v) <= ExplanationMaxLength
    THEN [ok |-> TRUE, decision |-> decision, explanation |-> explanation]
    ELSE [ok |-> FALSE, decision |-> decision, explanation |-> explanation]

(***************************************************************************)
(* app/services/review_service.py                                          *)
(***************************************************************************)

reject_keywords ==
    << "guaranteed", "overnight", "100% guaranteed", "no risk",
       "lose 15kg", "turn $100 into $10,000", "miracle",
       "get rich quick", "secret formula", "doctors hate" >>

approve_keywords ==
    << "evidence-based", "research", "psychology", "behavioral science",
       "course", "education", "strategy", "methodology" >>

\* The first keyword of the list, in list order, that occurs in text; "" if none.
FirstKeyword(keywords, text) ==
    LET hits == {i \in 1..Len(keywords) : Contains(keywords[i], text)}
    IN IF hits = {} THEN ""
       ELSE keywords[CHOOSE i \in hits : \A j \in hits : i <= j]

\* _mock_review with the approval list scanned before the rejection list.
mock_review_approve_first(product_name, sales_page) ==
    LET content_lower == lower(product_name \o " " \o sales_page)
        rejected == FirstKeyword(reject_keywords, content_lower)
        approved == FirstKeyword(approve_keywords, content_lower)
    IN IF approved # ""
       THEN ReviewResponse("approve",
                StrVal("Product appears educational and evidence-based."))
       ELSE IF rejected # ""
       THEN ReviewResponse("reject",
                StrVal("Product contains suspicious claims: '" \o rejected
                       \o "' - requires manual review."))
       ELSE ReviewResponse("reject",
                StrVal("Product requires manual review to ensure compliance and quality standards."))

\* ReviewService._mock_review
mock_review(product_name, sales_page) ==
    LET content_lower == lower(product_name \o " " \o sales_page)
        rejected == FirstKeyword(reject_keywords, content_lower)
        approved == FirstKeyword(approve_keywords, content_lower)
    IN IF rejected # ""
       THEN ReviewResponse("reject",
                StrVal("Product contains suspicious claims: '" \o rejected
                       \o "' - requires manual review."))
       ELSE IF approved # ""
       THEN ReviewResponse("approve",
                StrVal("Product appears educational and evidence-based."))
       ELSE ReviewResponse("reject",
                StrVal("Product requires manual review to ensure compliance and quality standards."))

RECURSIVE ScanLinesApproveWins(_, _)
\* The for loop without the "reject" not in line test of its first branch.
ScanLinesApproveWins(lines, i) ==
    IF i > Len(lines) THEN "reject"
    ELSE IF Contains("approve", lines[i]) THEN "approve"
    ELSE IF Contains("reject", lines[i]) THEN "reject"
    ELSE ScanLinesApproveWins(lines, i + 1)

RECURSIVE ScanLines(_, _)
\* The for loop over lines, from line i: the decision of the first decisive line,
\* "reject" (the default) if there is none.
ScanLines(lines, i) ==
    IF i > Len(lines) THEN "reject"
    ELSE IF Contains("approve", lines[i]) /\ ~Contains("reject", lines[i]) THEN "approve"
    ELSE IF Contains("reject", lines[i]) THEN "reject"
    ELSE ScanLines(lines, i + 1)

\* An exception raised inside the try block of _parse_ai_response.
Raised(type) ==
    [exc |-> type, decision |-> "", explanation |-> StrVal("")]

Candidate(decision, explanation) ==
    [exc |-> "", decision |-> decision, explanation |-> explanation]

\* CandidateOf without the lower() of the decision.
CandidateOfCaseSensitive(data) ==
    IF ~data.ok THEN Raised("JSONDecodeError")
    ELSE IF dict_get(data.val, "decision", StrVal("")).t # "str"
         THEN Raised("AttributeError")
    ELSE Candidate(dict_get(data.val, "decision", StrVal("")).v,
                   dict_get(data.val, "explanation", StrVal("")))

\* The decision and explanation of the parsed JSON object.
CandidateOf(data) ==
    IF ~data.ok THEN Raised("JSONDecodeError")
    ELSE IF dict_get(data.val, "decision", StrVal("")).t # "str"
         THEN Raised("AttributeError")
    ELSE Candidate(lower(dict_get(data.val, "decision", StrVal("")).v),
                   dict_get(data.val, "explanation", StrVal("")))

\* ParseCandidate without the endswith("}") half of its test.
ParseCandidateOpeningBrace(content) ==
    IF startswith(content, "{")
    THEN CandidateOf(json_loads(content))
    ELSE Candidate(ScanLines(split_lines(lower(content)), 1), StrVal(content))

\* "Try to parse as JSON first", else "Fallback parsing for non-JSON responses".
ParseCandidate(content) ==
    IF startswith(content, "{") /\ endswith(content, "}")
    THEN CandidateOf(json_loads(content))
    ELSE Candidate(ScanLines(split_lines(lower(content)), 1), StrVal(content))

\* "Validate decision"
ValidateDecision(c) ==
    IF c.exc # "" THEN c
    ELSE IF c.decision \notin {"approve", "reject"}
    THEN Candidate("reject",
                   StrVal("Unable to determine approval status - rejected for safety"))
    ELSE c

\* "Ensure explanation is reasonable length": len() raises TypeError for a value
\* without a length, and so does slicing a dict or adding a str to a list.
ClampExplanation(c) ==
    IF c.exc # "" THEN c
    ELSE IF c.explanation.t \notin {"str", "list", "dict"} THEN Raised("TypeError")
    ELSE IF Len(c.explanation.v) > 500
         THEN IF c.explanation.t = "str"
              THEN Candidate(c.decision,
                             StrVal(SubSeq(c.explanation.v, 1, 497) \o "..."))
              ELSE Raised("TypeError")
    ELSE IF Len(c.explanation.v) < 10
         THEN Candidate(c.decision,
                        StrVal("Product " \o c.decision \o "d based on content analysis."))
    ELSE c

\* return ReviewResponse(...), inside the try block.
BuildResponse(c) ==
    IF c.exc # "" THEN c
    ELSE IF ~ReviewResponse(IF c.decision = "approve" THEN "approve" ELSE "reject",
                            c.explanation).ok
         THEN Raised("ValidationError")
    ELSE Candidate(IF c.decision = "approve" THEN "approve" ELSE "reject", c.explanation)

\* The try block of _parse_ai_response: the record it returns, or the exception.
ParseTry(content) ==
    BuildResponse(ClampExplanation(ValidateDecision(ParseCandidate(content))))

\* The except block with an explanation below the model's minimum length.
ParseExceptShort ==
    ReviewResponse("reject", StrVal("Rejected"))

\* The except block of _parse_ai_response.
ParseExcept ==
    ReviewResponse("reject", StrVal("Unable to process review - rejected for safety"))

\* What _parse_ai_response returns for the outcome of its try block.
ParseReturn(tried) ==
    IF tried.exc = ""
    THEN [ok |-> TRUE, decision |-> tried.decision, explanation |-> tried.explanation]
    ELSE ParseExcept

\* ReviewService._parse_ai_response: ok is FALSE where it raises.
parse_ai_response(content) == ParseReturn(ParseTry(content))

\* An exception: its class and its message, str(e).
Exception(type, msg) == [type |-> type, msg |-> msg]

\* The except clauses with the caught error's text added to the message.
review_product_except_leaking(e) ==
    IF e.type = "TimeoutError"
    THEN Exception("Exception", "Review service timeout - please try again")
    ELSE IF e.type = "OpenAIError"
    THEN Exception("Exception", "AI service temporarily unavailable: " \o e.msg)
    ELSE Exception("Exception", "Review service error - please try again")

\* The except clauses with a timeout message that does not name the timeout.
review_product_except_reworded(e) ==
    IF e.type = "TimeoutError"
    THEN Exception("Exception", "Review service timed out - please try again")
    ELSE IF e.type = "OpenAIError"
    THEN Exception("Exception", "AI service temporarily unavailable")
    ELSE Exception("Exception", "Review service error - please try again")

\* The except clauses of ReviewService.review_product: what is raised for the
\* exception e that left the try block.
review_product_except(e) ==
    IF e.type = "TimeoutError"
    THEN Exception("Exception", "Review service timeout - please try again")
    ELSE IF e.type = "OpenAIError"
    THEN Exception("Exception", "AI service temporarily unavailable")
    ELSE Exception("Exception", "Review service error - please try again")

\* return self._parse_ai_response(content)
ReturnParsed(result) ==
    IF result.ok THEN [ok |-> TRUE, result |-> result]
    ELSE [ok |-> FALSE,
          exc |-> Exception("ValidationError", "1 validation error for ReviewResponse")]

\* "Parse the response", inside the try block: the record returned, or the
\* exception raised, for the completion r the backend returned.
review_product_parse(r) ==
    IF r.choices = 0
    THEN [ok |-> FALSE, exc |-> Exception("IndexError", "list index out of range")]
    ELSE IF ~r.has_content
         THEN [ok |-> FALSE,
               exc |-> Exception("AttributeError",
                                 "'NoneType' object has no attribute 'strip'")]
    ELSE ReturnParsed(parse_ai_response(strip(r.content)))

(***************************************************************************)
(* app/config.py                                                           *)
(***************************************************************************)

DefaultMaxContentLength == 10000

\* A lower max_content_length that a deployment may configure.
LowMaxContentLength == 30

\* ReviewService.__init__: self.client
NewClient(s) ==
    IF s.openai_api_key # "" /\ ~s.use_mock_ai THEN "AsyncOpenAI" ELSE "None"

(***************************************************************************)
(* app/main.py and app/api/routes.py                                       *)
(***************************************************************************)

RECURSIVE Join(_, _)
\* sep.join(parts)
Join(sep, parts) ==
    IF parts = <<>> THEN ""
    ELSE IF Len(parts) = 1 THEN parts[1]
    ELSE parts[1] \o sep \o Join(sep, Tail(parts))

\* validation_exception_handler
validation_exception_handler(errors) ==
    [status |-> 422,
     body |-> [error |-> "Validation Error",
               detail |-> Join("; ", [i \in 1..Len(errors) |->
                              Join(" -> ", errors[i].loc) \o ": " \o errors[i].msg])]]

\* The route's "Additional validation for content length".
RouteTooLong(s) ==
    [status |-> 400,
     body |-> [detail |-> "Sales page content too long (max "
                          \o ToString(s.max_content_length) \o " characters)"]]

\* The route returns the service's result: the response_model as JSON.
RouteReturn(result) ==
    [status |-> 200,
     body |-> [decision |-> result.decision, explanation |-> result.explanation]]

\* The route's except clause: the HTTPException raised for the exception e.
RouteExcept(e) ==
    LET error_msg == lower(e.msg)
    IN IF Contains("timeout", error_msg)
       THEN [status |-> 504, body |-> [detail |-> e.msg]]
       ELSE IF Contains("unavailable", error_msg)
       THEN [status |-> 503, body |-> [detail |-> e.msg]]
       ELSE [status |-> 500, body |-> [detail |-> "Review service error"]]

(***************************************************************************)
(* The modelled inputs                                                     *)
(***************************************************************************)

\* By how many characters an over-long input exceeds its limit.
Excess == 1

\* The element count of the longest list a backend payload carries.
MaxListLen == 12

Settings ==
    [use_mock_ai : BOOLEAN,
     openai_api_key : {"", "sk-test"},
     max_content_length : {DefaultMaxContentLength, LowMaxContentLength}]

ProductNames ==
    { Missing, NotAString, Str(""), Str("   "),
      Str(" Study Course "), Str("Crypto Bot"), Str("no"), Str("Widget"),
      Str(Repeat("x", ProductNameMaxLength)),
      Str(Repeat("x", ProductNameMaxLength + Excess)),
      Str(" " \o Repeat("x", ProductNameMaxLength)) }

SalesPages ==
    { Missing, NotAString, Str(""), Str(Repeat(" ", SalesPageMinLength - 1)),
      Str("  \n\t  \n    \n"),
      Str("short"), Str("   abc    "),
      Str(Repeat("y", SalesPageMinLength - 1)), Str(Repeat("y", SalesPageMinLength)),
      Str("Evidence-based strategies backed by psychology research."),
      Str("Lose 15kg in 21 days! 100% guaranteed results!"),
      Str("Turn $100 into $10,000 overnight with no risk!"),
      Str("risk free trial of our gardening toolkit"),
      Str(" A plain description of a garden kit.\n"),
      Str(Repeat("y", SalesPageMaxLength)),
      Str(Repeat("y", SalesPageMaxLength + Excess)) }

Range(seq) == {seq[i] : i \in 1..Len(seq)}

\* Sales pages that carry one trigger phrase, or an approval phrase followed by a
\* rejection phrase (each rejection phrase with one of the approval phrases).
KeywordPages ==
    {"Our " \o k \o " offer." : k \in Range(reject_keywords) \cup Range(approve_keywords)}
    \cup {"An " \o approve_keywords[(j % Len(approve_keywords)) + 1] \o " and "
               \o reject_keywords[j] \o " plan." : j \in 1..Len(reject_keywords)}

Bodies ==
    [product_name : ProductNames, sales_page : SalesPages]
    \cup [product_name : {Str("Widget")}, sales_page : {Str(p) : p \in KeywordPages}]

\* "[1, 1, ..., 1]" with n elements
JsonList(n) == "[" \o Join(", ", [i \in 1..n |-> "1"]) \o "]"

\* The JSON text of a decision value; "" leaves the key out.
DecisionTexts ==
    {"", "\"approve\"", "\"APPROVE\"", "\"Reject\"", "\"MAYBE\"", "\"\"", "null", "7"}

\* The JSON text of an explanation value; "" leaves the key out.
ExplanationTexts ==
    {"", "\"\"",
     "\"" \o Repeat("e", ExplanationMinLength - 1) \o "\"",
     "\"" \o Repeat("e", ExplanationMinLength) \o "\"",
     "\"Product is educational and well-structured.\"",
     "\"" \o Repeat(" ", ExplanationMinLength + 2) \o "\"",
     "\"" \o Repeat("e", ExplanationMaxLength) \o "\"",
     "\"" \o Repeat("e", ExplanationMaxLength + Excess) \o "\"",
     "null", "12345", "[]", JsonList(MaxListLen)}

\* The object with the given decision and explanation members.
JsonObject(d, e) ==
    "{" \o Join(", ", (IF d = "" THEN <<>> ELSE <<"\"decision\": " \o d>>)
                      \o (IF e = "" THEN <<>> ELSE <<"\"explanation\": " \o e>>))
        \o "}"

JsonContents == {JsonObject(d, e) : d \in DecisionTexts, e \in ExplanationTexts}

\* Brace-wrapped text that is not one JSON object.
BracedContents ==
    { "{approve this product}",
      "{\"decision\": \"approve\", \"explanation\": \"Cut off in the middle}",
      "{\"decision\": \"approve\",}",
      "{\"decision\": \"approve\"} or {\"decision\": \"reject\"}" }

FreeTextContents ==
    { "I approve this product.\nIt is educational.",
      "Decision: REJECT\nWe cannot approve this.",
      "We neither approve nor reject yet.\nApprove.",
      "No verdict in this line.\nAPPROVE, it reads well.\nreject",
      "No clear verdict was reached here.",
      "ok", "",
      "{\"decision\": \"approve\"",
      Repeat("z", ExplanationMaxLength + Excess) \o "\napprove" }

\* What the backend's message.content may hold.
Contents ==
    JsonContents \cup BracedContents \cup FreeTextContents
    \cup { "  " \o JsonObject("\"approve\"", "\"Product is educational and well-structured.\"") \o "\n" }

\* The completions the backend may return: a message with text, a message without
\* content, or no choice at all.
Completions ==
    {[choices |-> 1, has_content |-> TRUE, content |-> c] : c \in Contents}
    \cup {[choices |-> 1, has_content |-> FALSE, content |-> ""],
          [choices |-> 0, has_content |-> FALSE, content |-> ""]}

\* What asyncio.wait_for raises when the timeout expires.
TimeoutErrors == {Exception("TimeoutError", "")}

\* Errors the backend client reports (openai.OpenAIError and its subclasses).
OpenAIErrors ==
    {Exception("OpenAIError", m) :
        m \in {"Incorrect API key provided", "Request timed out.",
               "Gateway timeout", "You exceeded your current quota"}}

\* Any other exception that leaves the backend call.
OtherErrors ==
    {Exception("RuntimeError", m) :
        m \in {"Event loop is closed", "connection timeout", "proxy unavailable"}}

(***************************************************************************)
(* State                                                                   *)
(***************************************************************************)

VARIABLES
    settings,       \* app.config.settings, read-only after startup
    client,         \* ReviewService.client: "None" or "AsyncOpenAI"
    pc,             \* the request in hand: "idle", "awaiting", "responded"
    body,           \* the JSON body of the request in hand
    engine_calls,   \* the arguments of each call of ReviewService.review_product
    mock_runs,      \* how many times _mock_review ran for the request
    backend_calls,  \* how many times chat.completions.create was called for it
    outcome,        \* how the awaited backend call ended
    response        \* the HTTP response sent

vars == <<settings, client, pc, body, engine_calls, mock_runs, backend_calls,
          outcome, response>>

NoBody == [product_name |-> Missing, sales_page |-> Missing]

NoOutcome == [kind |-> "none"]

NoResponse == [status |-> 0, body |-> [detail |-> ""]]

\* The process after startup (lifespan): the settings are loaded and the service
\* is constructed; no request is in hand.
Init ==
    /\ settings \in Settings
    /\ client = NewClient(settings)
    /\ pc = "idle"
    /\ body = NoBody
    /\ engine_calls = <<>>
    /\ mock_runs = 0
    /\ backend_calls = 0
    /\ outcome = NoOutcome
    /\ response = NoResponse

\* review_product's first test: the heuristic classifier is used.
UsesMock == settings.use_mock_ai \/ client = "None"

\* The request ends with the HTTP response resp.
Respond(resp) ==
    /\ response' = resp
    /\ pc' = "responded"

\* return await self._mock_review(product_name, sales_page), and the route's
\* handling of what it returns or raises.
RunMock(result) ==
    /\ mock_runs' = mock_runs + 1
    /\ Respond(IF result.ok THEN RouteReturn(result)
               ELSE RouteExcept(Exception("ValidationError",
                                          "1 validation error for ReviewResponse")))
    /\ UNCHANGED backend_calls

\* The try block up to the await: the one chat.completions.create call.
CallBackend ==
    /\ backend_calls' = backend_calls + 1
    /\ response' = NoResponse
    /\ pc' = "awaiting"
    /\ UNCHANGED mock_runs

\* ReviewService.review_product, up to its return or its await.
review_product(product_name, sales_page) ==
    /\ engine_calls' = Append(engine_calls,
                              [product_name |-> product_name, sales_page |-> sales_page])
    /\ IF UsesMock THEN RunMock(mock_review(product_name, sales_page))
       ELSE CallBackend

\* The route handler for the request model req that FastAPI built from the body.
Route(req) ==
    IF ~req.ok
    THEN /\ Respond(validation_exception_handler(req.errors))
         /\ UNCHANGED <<engine_calls, mock_runs, backend_calls>>
    ELSE IF Len(req.sales_page) > settings.max_content_length
    THEN /\ Respond(RouteTooLong(settings))
         /\ UNCHANGED <<engine_calls, mock_runs, backend_calls>>
    ELSE review_product(req.product_name, req.sales_page)

\* POST /review with body b: FastAPI builds the ReviewRequest, the route checks
\* the length and calls the service, which answers from _mock_review or issues
\* the backend call and awaits it.
Post(b) ==
    /\ pc = "idle"
    /\ body' = b
    /\ outcome' = NoOutcome
    /\ Route(ReviewRequest(b))
    /\ UNCHANGED <<settings, client>>

\* The route's handling of what review_product returns or raises after the await.
RouteResult(parsed) ==
    Respond(IF parsed.ok THEN RouteReturn(parsed.result)
            ELSE RouteExcept(review_product_except(parsed.exc)))

\* The backend call returns the completion r within the timeout.
BackendReturns(r) ==
    /\ pc = "awaiting"
    /\ outcome' = [kind |-> "returned", completion |-> r]
    /\ RouteResult(review_product_parse(r))
    /\ UNCHANGED <<settings, client, body, engine_calls, mock_runs, backend_calls>>

\* The awaited call raises e and the call is issued again.
BackendRaisesRetry(e) ==
    /\ pc = "awaiting"
    /\ outcome' = [kind |-> "raised", error |-> e]
    /\ backend_calls' = backend_calls + 1
    /\ UNCHANGED <<settings, client, pc, body, engine_calls, mock_runs, response>>

\* The awaited call raises e and the request is answered by _mock_review.
BackendRaisesFallback(e) ==
    /\ pc = "awaiting"
    /\ outcome' = [kind |-> "raised", error |-> e]
    /\ mock_runs' = mock_runs + 1
    /\ Respond(RouteReturn(mock_review(engine_calls[1].product_name,
                                       engine_calls[1].sales_page)))
    /\ UNCHANGED <<settings, client, body, engine_calls, backend_calls>>

\* The awaited call raises e: the timeout expired (TimeoutError), the backend
\* reported an error (OpenAIError), or anything else went wrong.
BackendRaises(e) ==
    /\ pc = "awaiting"
    /\ outcome' = [kind |-> "raised", error |-> e]
    /\ Respond(RouteExcept(review_product_except(e)))
    /\ UNCHANGED <<settings, client, body, engine_calls, mock_runs, backend_calls>>

\* The backend call exceeds settings.openai_timeout.
BackendTimeout == \E e \in TimeoutErrors : BackendRaises(e)

\* The backend reports an error.
BackendError == \E e \in OpenAIErrors : BackendRaises(e)

\* The call fails in some other way.
BackendFails == \E e \in OtherErrors : BackendRaises(e)

\* The response is sent; everything of the request is discarded.
NextRequest ==
    /\ pc = "responded"
    /\ pc' = "idle"
    /\ body' = NoBody
    /\ engine_calls' = <<>>
    /\ mock_runs' = 0
    /\ backend_calls' = 0
    /\ outcome' = NoOutcome
    /\ response' = NoResponse
    /\ UNCHANGED <<settings, client>>

Next ==
    \/ \E b \in Bodies : Post(b)
    \/ \E r \in Completions : BackendReturns(r)
    \/ BackendTimeout
    \/ BackendError
    \/ BackendFails
    \/ NextRequest

Spec == Init /\ [][Next]_vars

(***************************************************************************)
(* Properties                                                              *)
(***************************************************************************)

\* The request in hand was answered with a decision record.
ReturnedRecord == pc = "responded" /\ response.status = 200

\* The backend returned a completion whose message has text.
ReturnedText ==
    /\ pc = "responded"
    /\ outcome.kind = "returned"
    /\ outcome.completion.choices = 1
    /\ outcome.completion.has_content

\* The text _parse_ai_response was given.
ParsedText == strip(outcome.completion.content)

\* The text is wrapped in braces.
Braced(text) == startswith(text, "{") /\ endswith(text, "}")

\* A member of the object data, as a value [t, v]; t is "missing" without the key.
Member(data, key) == dict_get(data.val, key, [t |-> "missing", v |-> ""])

\* The exception that left the try block of review_product, for a failed request.
FailedWith ==
    IF outcome.kind = "raised" THEN outcome.error
    ELSE review_product_parse(outcome.completion).exc

\* The request failed on the live backend path.
BackendFailed ==
    /\ pc = "responded"
    /\ \/ outcome.kind = "raised"
       \/ outcome.kind = "returned" /\ ~review_product_parse(outcome.completion).ok

\* C1: every decision record returned to a caller, from the heuristic classifier
\* or from _parse_ai_response, has an explanation that is a string of at least 10
\* and at most 500 characters.
C1_ExplanationLength ==
    ReturnedRecord =>
        /\ response.body.explanation.t = "str"
        /\ Len(response.body.explanation.v) >= 10
        /\ Len(response.body.explanation.v) <= 500

\* A backend text longer than 500 characters came back as a 500-character
\* explanation.
C1_Witness ==
    /\ ReturnedText
    /\ Len(ParsedText) > 500
    /\ ReturnedRecord
    /\ Len(response.body.explanation.v) = 500

\* Whether some phrase of the list occurs in the text.
AnyPhrase(keywords, text) == \E k \in Range(keywords) : Contains(k, text)

\* The decision the three-tier precedence gives for the lower-cased text.
ThreeTier(text) ==
    IF AnyPhrase(reject_keywords, text) THEN "reject"
    ELSE IF AnyPhrase(approve_keywords, text) THEN "approve"
    ELSE "reject"

\* The lower-cased concatenation of the name and the page the engine was given.
EngineText ==
    lower(engine_calls[1].product_name \o " " \o engine_calls[1].sales_page)

\* The heuristic classifier's answer agrees with the precedence over text.
FollowsThreeTier(text) ==
    /\ ReturnedRecord
    /\ response.body.decision = ThreeTier(text)
    /\ response.body.decision = "approve" <=>
          (AnyPhrase(approve_keywords, text) /\ ~AnyPhrase(reject_keywords, text))

BothKinds(text) ==
    AnyPhrase(approve_keywords, text) /\ AnyPhrase(reject_keywords, text)

Malformed(text, data) ==
    /\ Braced(text)
    /\ \/ ~data.ok
       \/ Member(data, "decision").t # "str"
       \/ Member(data, "explanation").t # "str"

\* A value len() measures below 10 without being a string: a missing explanation
\* (the default "") or a list or object of fewer than 10 elements.
ShortNonString(x) ==
    \/ x.t = "missing"
    \/ x.t \in {"list", "dict"} /\ Len(x.v) < 10

\* The payload's decision is the string approve in some letter case.
SaysApprove(data) ==
    /\ data.ok
    /\ Member(data, "decision").t = "str"
    /\ lower(Member(data, "decision").v) = "approve"

RejectedIfMalformed(text, data) ==
    Malformed(text, data) =>
        /\ ReturnedRecord
        /\ response.body.decision = "reject"

TotalOnMalformed(text, data) ==
    Malformed(text, data) =>
        /\ ReturnedRecord
        /\ response.body.decision \in {"approve", "reject"}
        /\ response.body.explanation.t = "str"
        /\ Len(response.body.explanation.v) >= 10
        /\ Len(response.body.explanation.v) <= 500
        /\ response.body.decision = "approve" <=>
              (SaysApprove(data) /\ ShortNonString(Member(data, "explanation")))
        /\ response.body.decision = "approve" =>
              response.body.explanation.v = "Product approved based on content analysis."

ApproveWithNull(text, data) ==
    /\ Malformed(text, data)
    /\ SaysApprove(data)
    /\ Member(data, "explanation").t = "null"

FailureClass(e) ==
    IF e.type = "TimeoutError" THEN "Timeout"
    ELSE IF e.type = "OpenAIError" THEN "Unavailable"
    ELSE "Generic"

StatusOfClass(class) ==
    /\ class = "Timeout" => response.status = 504
    /\ class = "Unavailable" => response.status = 503
    /\ class = "Generic" => response.status = 500
    /\ response.status \in {500, 503, 504}

\* C4: a request that fails on the live backend path is answered with the status
\* of its failure class: 504 when the call exceeded the timeout, 503 when the
\* backend reported an error, 500 for every other failure.
C4_StatusOfFailureClass ==
    BackendFailed => StatusOfClass(FailureClass(FailedWith))

\* A backend call that exceeded the timeout was answered 504.
C4_Witness ==
    /\ BackendFailed
    /\ outcome.kind = "raised"
    /\ outcome.error.type = "TimeoutError"
    /\ response.status = 504

\* C5: in live mode each invocation of review_product issues exactly one backend
\* call, and none is added after a failure or a timeout; in heuristic mode no
\* backend call is issued.
C5_OneCallNoRetry ==
    /\ backend_calls <= 1
    /\ (pc # "idle" /\ engine_calls # <<>>) =>
          /\ Len(engine_calls) = 1
          /\ backend_calls = (IF UsesMock THEN 0 ELSE 1)
    /\ engine_calls = <<>> => backend_calls = 0

\* A live request whose backend call failed ended with its one call.
C5_Witness ==
    /\ BackendFailed
    /\ outcome.kind = "raised"
    /\ ~UsesMock
    /\ backend_calls = 1

\* C6: the heuristic classifier is no fallback: a request whose backend call fails
\* or times out ends in a classified failure without a decision record, and no
\* request both calls the backend and runs the heuristic classifier.
C6_NoFallback ==
    /\ ~(backend_calls > 0 /\ mock_runs > 0)
    /\ backend_calls > 0 => ~UsesMock
    /\ mock_runs > 0 => UsesMock
    /\ BackendFailed =>
          /\ mock_runs = 0
          /\ response.status \in {500, 503, 504}
          /\ DOMAIN response.body = {"detail"}

\* A live request whose backend call failed was answered with a failure, the
\* heuristic classifier not having run.
C6_Witness ==
    /\ BackendFailed
    /\ outcome.kind = "raised"
    /\ outcome.error.type = "OpenAIError"
    /\ mock_runs = 0
    /\ response.status = 503

\* The field is missing, empty or whitespace-only.
Blank(f) == f.kind = "missing" \/ (f.kind = "str" /\ strip(f.val) = "")

\* C7: a request with an empty, whitespace-only or missing product_name or
\* sales_page is answered 422 with a body carrying an error field; the engine is
\* not invoked for it and no decision record is returned.
C7_BlankInputRejected ==
    (pc # "idle" /\ (Blank(body.product_name) \/ Blank(body.sales_page))) =>
        /\ pc = "responded"
        /\ response.status = 422
        /\ "error" \in DOMAIN response.body
        /\ "decision" \notin DOMAIN response.body
        /\ engine_calls = <<>>
        /\ mock_runs = 0
        /\ backend_calls = 0

\* A sales_page of whitespace long enough to pass min_length was turned down by
\* the field validator.
C7_Witness ==
    /\ pc = "responded"
    /\ body.product_name.kind = "str" /\ strip(body.product_name.val) # ""
    /\ body.sales_page.kind = "str"
    /\ Len(body.sales_page.val) >= 10
    /\ strip(body.sales_page.val) = ""
    /\ response.status = 422
    /\ engine_calls = <<>>

\* Both fields are strings within the stated maximum lengths, as sent, and
\* non-empty after trimming.
NonBlankWithinMax ==
    /\ body.product_name.kind = "str" /\ body.sales_page.kind = "str"
    /\ Len(body.product_name.val) <= 200
    /\ Len(body.sales_page.val) <= 10000
    /\ strip(body.product_name.val) # ""
    /\ strip(body.sales_page.val) # ""

\* The request reached the engine with the trimmed values, and with the backend
\* disabled it was answered 200 with {decision, explanation}.
AcceptedTrimmed ==
    /\ engine_calls = <<[product_name |-> strip(body.product_name.val),
                         sales_page |-> strip(body.sales_page.val)]>>
    /\ UsesMock =>
          /\ pc = "responded"
          /\ response.status = 200
          /\ DOMAIN response.body = {"decision", "explanation"}

\* C8 as stated, with max_content_length at its default: every request whose
\* product_name (at most 200 characters) and sales_page (at most 10000) are
\* non-empty after trimming reaches the engine with the trimmed values, and with
\* the backend disabled returns {decision, explanation} with status 200.
C8_Original ==
    (pc # "idle" /\ settings.max_content_length = DefaultMaxContentLength
     /\ NonBlankWithinMax) => AcceptedTrimmed

\* C8 as amended: the same for every request whose sales_page is moreover at
\* least 10 characters long as sent and, trimmed, no longer than the configured
\* max_content_length.
C8_ValidRequestAccepted ==
    (pc # "idle" /\ NonBlankWithinMax
     /\ Len(body.sales_page.val) >= 10
     /\ Len(strip(body.sales_page.val)) <= settings.max_content_length)
        => AcceptedTrimmed

\* A request sent with surrounding whitespace reached the engine trimmed and was
\* answered 200 by the heuristic classifier.
C8_Witness ==
    /\ pc = "responded" /\ UsesMock
    /\ NonBlankWithinMax
    /\ body.product_name.val # strip(body.product_name.val)
    /\ body.sales_page.val # strip(body.sales_page.val)
    /\ engine_calls # <<>>
    /\ engine_calls[1].product_name = strip(body.product_name.val)
    /\ response.status = 200

\* Every exception the model lets leave the try block of review_product.
AllErrors ==
    TimeoutErrors \cup OpenAIErrors \cup OtherErrors
    \cup {Exception("IndexError", "list index out of range"),
          Exception("AttributeError", "'NoneType' object has no attribute 'strip'")}

\* The response to the failure e is the one every failure of e's class gets, and
\* it does not carry e's message.
GenericFor(e) ==
    /\ \A e2 \in AllErrors :
          FailureClass(e2) = FailureClass(e) =>
              RouteExcept(review_product_except(e2)) = response
    /\ e.msg # "" => ~Contains(e.msg, response.body.detail)

\* C9: every error raised on the live backend path reaches the caller with a
\* generic message that does not depend on the original error's text: any other
\* failure of the same class, whatever its message, gets the same HTTP response
\* (status and detail), and the response does not carry the error's message.
C9_GenericFailureResponse ==
    BackendFailed => GenericFor(FailedWith)

\* A backend error whose own message names a timeout was answered as any other
\* backend error: 503 with the fixed detail.
C9_Witness ==
    /\ BackendFailed
    /\ outcome.kind = "raised"
    /\ outcome.error = Exception("OpenAIError", "Gateway timeout")
    /\ response = [status |-> 503,
                   body |-> [detail |-> "AI service temporarily unavailable"]]

\* The decision value d is approve or reject in some letter case.
Recognized(d) == d.t = "str" /\ lower(d.v) \in {"approve", "reject"}

\* The record returned is reject with the fixed safety explanation.
SafetyReject ==
    /\ ReturnedRecord
    /\ response.body.decision = "reject"
    /\ response.body.explanation.v
          = "Unable to determine approval status - rejected for safety"

\* The record returned carries the decision d, lower-cased.
Kept(d) == ReturnedRecord /\ response.body.decision = lower(d.v)

VocabularyAsStated(text, data) ==
    (Braced(text) /\ data.ok /\ Member(data, "decision").t \in {"missing", "str"}) =>
        IF Recognized(Member(data, "decision"))
        THEN Kept(Member(data, "decision"))
        ELSE SafetyReject

VocabularyAmended(text, data) ==
    (Braced(text) /\ data.ok /\ Member(data, "decision").t \in {"missing", "str"}) =>
        IF Recognized(Member(data, "decision"))
        THEN Member(data, "explanation").t \in {"missing", "str"}
                => Kept(Member(data, "decision"))
        ELSE SafetyReject

MaybeWithExplanation(text, data) ==
    /\ Braced(text) /\ data.ok
    /\ Member(data, "decision") = [t |-> "str", v |-> "MAYBE"]
    /\ Member(data, "explanation").t = "str"
    /\ Len(Member(data, "explanation").v) >= 10

Decisive(line) == Contains("approve", line) \/ Contains("reject", line)

\* The decision of the line: approve if it says approve and not reject.
DecisionOfLine(line) ==
    IF Contains("approve", line) /\ ~Contains("reject", line) THEN "approve" ELSE "reject"

\* The decision the first decisive line of lines gives, reject without one.
FirstDecisive(lines) ==
    IF \A i \in 1..Len(lines) : ~Decisive(lines[i]) THEN "reject"
    ELSE DecisionOfLine(lines[CHOOSE i \in 1..Len(lines) :
                                 /\ Decisive(lines[i])
                                 /\ \A j \in 1..(i - 1) : ~Decisive(lines[j])])

\* The text as an explanation of the decision, after length clamping.
Clamped(text, decision) ==
    IF Len(text) > 500 THEN SubSeq(text, 1, 497) \o "..."
    ELSE IF Len(text) < 10 THEN "Product " \o decision \o "d based on content analysis."
    ELSE text

\* The record returned has the decision and, clamped, the text as explanation.
ReturnedFor(decision, text) ==
    /\ ReturnedRecord
    /\ response.body.decision = decision
    /\ response.body.explanation = [t |-> "str", v |-> Clamped(text, decision)]

\* The record returned is the one the line scan of the text gives.
LineScanned(text) == ReturnedFor(FirstDecisive(split_lines(lower(text))), text)

\* The record returned is the one for a payload that could not be processed.
Unprocessable ==
    /\ ReturnedRecord
    /\ response.body.decision = "reject"
    /\ response.body.explanation.v = "Unable to process review - rejected for safety"

\* Parsing the whole text as a JSON object fails.
NoJsonObject(text) == IF Braced(text) THEN ~json_loads(text).ok ELSE TRUE

\* C11 as stated: whenever parsing the whole blob as a JSON object fails, the blob
\* is interpreted by the line scan and gets its decisive line's decision and the
\* raw blob as candidate explanation, rather than being treated as unprocessable.
C11_Original ==
    (ReturnedText /\ NoJsonObject(ParsedText)) => LineScanned(ParsedText)

\* C11 as amended: a blob that is not wrapped in braces (it does not both start
\* with "{" and end with "}") is interpreted by the line scan and gets its
\* decisive line's decision and the raw blob as candidate explanation; a
\* brace-wrapped blob that is not valid JSON is treated as unprocessable and gets
\* reject with the fixed explanation.
C11_ScanUnlessBraced ==
    (ReturnedText /\ NoJsonObject(ParsedText)) =>
        IF Braced(ParsedText) THEN Unprocessable ELSE LineScanned(ParsedText)

\* A JSON object cut off before its closing brace was line-scanned: approve, with
\* the blob as explanation.
C11_Witness ==
    /\ ReturnedText
    /\ ParsedText = "{\"decision\": \"approve\""
    /\ response.body.decision = "approve"
    /\ response.body.explanation.v = ParsedText

\* C12: for backend text handled by the line scan the decision is that of the
\* first line, in order, containing approve or reject (lower-cased): approve if
\* the line contains approve and not reject, reject if it contains reject; later
\* lines do not change it, and without such a line the decision is reject.  The
\* explanation is the whole text, clamped in length.
C12_FirstDecisiveLine ==
    (ReturnedText /\ ~Braced(ParsedText)) =>
        /\ ReturnedRecord
        /\ response.body.decision = FirstDecisive(split_lines(lower(ParsedText)))
        /\ response.body.explanation.t = "str"
        /\ response.body.explanation.v = Clamped(ParsedText, response.body.decision)

\* The first line names both words and a later line only approve.
BothThenApprove(lines) ==
    /\ Len(lines) > 1
    /\ Contains("approve", lines[1]) /\ Contains("reject", lines[1])
    /\ \E i \in 2..Len(lines) : DecisionOfLine(lines[i]) = "approve" /\ Decisive(lines[i])

\* A text whose first line names both words, followed by a line that only says
\* approve, was rejected.
C12_Witness ==
    /\ ReturnedText
    /\ ~Braced(ParsedText)
    /\ BothThenApprove(split_lines(lower(ParsedText)))
    /\ response.body.decision = "reject"

\* C13: every decision record returned has an explanation that is non-empty after
\* trimming surrounding whitespace; a backend payload whose explanation is only
\* whitespace never reaches the caller unchanged.
C13_ExplanationNotBlank ==
    ReturnedRecord =>
        /\ response.body.explanation.t = "str"
        /\ strip(response.body.explanation.v) # ""

====
